---- MODULE Spec2Model ----
(***************************************************************************)
(* The Tier State Engine of chocolate-curry: the board handlers of         *)
(* TierListManager (src/components/TierListManager.tsx), the template      *)
(* presets (src/models/Tier.ts) and the URL codec and item resolver of     *)
(* TierCortex (src/.github/workflows/label-image-updates.yml, from line    *)
(* 22 on).                                                                 *)
(*                                                                         *)
(* Objects.  A Tier[] of the program is an array of references to tier     *)
(* objects.  The only tier objects that are ever reachable from two places *)
(* between two handler calls are the objects of DEFAULT_TIER_TEMPLATE      *)
(* (getInitialTiers returns the template array itself, or a shallow copy   *)
(* of it); every handler but handleItemsCreate builds fresh objects with   *)
(* an object spread.  An array element is therefore modelled as            *)
(*     [ref |-> i, obj |-> NoTier]   the object DEFAULT_TIER_TEMPLATE[i]   *)
(*     [ref |-> 0, obj |-> t]        an object of its own, with value t    *)
(* and the template objects live in the variable tierTemplates.            *)
(*                                                                         *)
(* Strings are TLA+ strings; CodeUnits gives the UTF-16 code units of the  *)
(* item contents the model draws from.  The JavaScript value undefined is  *)
(* the string Undefined.                                                   *)
(***************************************************************************)
EXTENDS Integers, Sequences, FiniteSets, TLC

VARIABLES
  tierTemplates,     \* Tier.ts: the exported template objects (mutable)
  tiers,             \* TierListManager: useState<Tier[]>
  previousTiersRef,  \* TierListManager: useRef<Tier[]>, its .current
  labelPosition,     \* TierListManager: useState<LabelPosition>
  url,               \* the state parameter of the URL: the token the page was
                     \* opened with, or the board handleTiersUpdate encoded last
  historyLength,     \* the entries of the browser's session history, counted
                     \* up to MaxHistory
  localStorage,      \* the browser's entry under CUSTOM_ITEMS_KEY
  engine,            \* this TierCortex: "new", "ready" (constructed) or "threw"
  otherTab,          \* a TierCortex of another tab of the browser: its engine
                     \* status and its customItemsMap
  customItemsMap,    \* TierCortex.customItemsMap, in insertion order
  isServer,          \* TierCortex.isServer
  baseUrl,           \* TierCortex.baseUrl
  decoded,           \* the value of the last decodeTierStateFromURL call
  resolved,          \* the value of the last resolveItem call
  last               \* history: the last operation, its input, the board before it

vars == <<tierTemplates, tiers, previousTiersRef, labelPosition, url,
          historyLength, localStorage, engine, otherTab,
          customItemsMap, isServer, baseUrl, decoded, resolved, last>>

\* ------------------------------------------------------------------ bounds

\* The most items a board may hold after handleItemsCreate.
MaxItems == 2
\* The longest batch handed to handleItemsCreate.
MaxBatch == 2
\* The most tiers, and the most items of a tier, of a board handed to the
\* codec.
MaxCodecTiers == 2
MaxCodecItems == 1
\* The most entries of the session history that are counted.
MaxHistory == 2
\* The longest batch handed to addCustomItems.
MaxCustomBatch == 2

\* ------------------------------------------------------------ basic values

\* The JavaScript value undefined where a string is expected.
Undefined == "<undefined>"

\* type LabelPosition
LabelPositions == {"top", "left", "right"}

RECURSIVE Flatten(_)
\* Array.prototype.flatMap with the identity: the concatenation of a
\* sequence of sequences.
Flatten(ss) == IF ss = <<>> THEN <<>> ELSE Head(ss) \o Flatten(Tail(ss))

Range(s) == {s[i] : i \in 1..Len(s)}

\* ----------------------------------------------------------------- Tier.ts

\* One tier skeleton of a template literal.
Skeleton(id, name) ==
  [id |-> id, name |-> name, items |-> <<>>, labelPosition |-> "left",
   placeholder |-> name]

tierTemplatesInitial ==
  ("3rows" :> << Skeleton("tier-s", "S"), Skeleton("tier-a", "A"),
                 Skeleton("tier-b", "B") >>) @@
  ("5rows" :> << Skeleton("tier-s", "S"), Skeleton("tier-a", "A"),
                 Skeleton("tier-b", "B"), Skeleton("tier-c", "C"),
                 Skeleton("tier-f", "F") >>) @@
  ("7rows" :> << Skeleton("tier-ss", "SS"), Skeleton("tier-s", "S"),
                 Skeleton("tier-a", "A"), Skeleton("tier-b", "B"),
                 Skeleton("tier-c", "C"), Skeleton("tier-d", "D"),
                 Skeleton("tier-f", "F") >>)

TemplateNames == {"3rows", "5rows", "7rows"}

\* DEFAULT_TIER_TEMPLATE = tierTemplates['5rows']: the same array object.
DEFAULT_TIER_TEMPLATE == "5rows"

\* ------------------------------------------------------- array elements

NoTier == [id |-> Undefined, name |-> Undefined, items |-> <<>>,
           labelPosition |-> Undefined, placeholder |-> Undefined]

\* A reference to the object DEFAULT_TIER_TEMPLATE[i].
Shared(i) == [ref |-> i, obj |-> NoTier]
\* A reference to an object of its own.
Own(t) == [ref |-> 0, obj |-> t]

\* The tier object an array element refers to, the templates being tpl.
TierOf(tpl, e) == IF e.ref = 0 THEN e.obj ELSE tpl[DEFAULT_TIER_TEMPLATE][e.ref]

\* The board an array of references denotes: its tier objects, in order.
BoardOf(tpl, ts) == [i \in 1..Len(ts) |-> TierOf(tpl, ts[i])]

Board == BoardOf(tierTemplates, tiers)

\* All items of a board, tiers top to bottom, items left to right.
AllItems(b) == Flatten([i \in 1..Len(b) |-> b[i].items])

ItemCount(b) == Len(AllItems(b))

\* ------------------------------------------------------- TierCortex: items

\* imageset.config.json: the bundled catalog, one package with two images,
\* one without a label and one with a label.
imagesetConfig ==
  << [packageName |-> "pk",
      images |-> << [filename |-> "a.png", label |-> Undefined],
                    [filename |-> "q.png", label |-> "B"] >>] >>

\* filename.split('.')[0] for the file names of the model.
FirstPart(filename) ==
  CASE filename = "a.png" -> "a"
    [] filename = "q.png" -> "q"
    [] OTHER -> filename

\* initializePackageItemLookup: the catalog entries, as a sequence.
packageItems ==
  Flatten([p \in 1..Len(imagesetConfig) |->
    [k \in 1..Len(imagesetConfig[p].images) |->
      LET packageName == imagesetConfig[p].packageName
          image == imagesetConfig[p].images[k]
      IN [id |-> packageName \o "-" \o image.filename,
          content |-> IF image.label # Undefined THEN image.label
                      ELSE FirstPart(image.filename),
          imageUrl |-> "/images/" \o packageName \o "/" \o image.filename]]])

\* this.packageItemLookup: id -> Item.
packageItemLookup ==
  [id \in {packageItems[k].id : k \in 1..Len(packageItems)} |->
     LET k == CHOOSE k \in 1..Len(packageItems) :
                packageItems[k].id = id /\
                \A j \in (k+1)..Len(packageItems) : packageItems[j].id # id
     IN packageItems[k]]

\* The outcome of an expression that throws.
Throw == [id |-> "<throw>", content |-> "<throw>", imageUrl |-> "<throw>"]

Origin == "https://host"

\* new URL(path, base).toString(): throws on a base that is no URL.
getAbsoluteUrl(base, path) == IF base = "" THEN "<throw>" ELSE base \o path

createPlaceholderItem(base, itemId, content) ==
  IF getAbsoluteUrl(base, "/placeholder-image.jpg") = "<throw>" THEN Throw
  ELSE [id |-> itemId, content |-> content,
        imageUrl |-> getAbsoluteUrl(base, "/placeholder-image.jpg")]

\* Map.prototype.get on the custom-item store: the record set last under key.
HasCustom(store, key) == \E k \in 1..Len(store) : store[k].i = key
GetCustom(store, key) == store[CHOOSE k \in 1..Len(store) : store[k].i = key]

\* resolveItem with the sources consulted in another order: the custom
\* store before the catalog.
resolveItemCustomFirst(store, server, base, itemId, content) ==
  IF ~server /\ HasCustom(store, itemId)
  THEN [id |-> GetCustom(store, itemId).i, content |-> content,
        imageUrl |-> GetCustom(store, itemId).d]
  ELSE IF itemId \in DOMAIN packageItemLookup THEN packageItemLookup[itemId]
  ELSE createPlaceholderItem(base, itemId, content)

\* resolveItem: catalog, then (on the client) the custom store, then the
\* placeholder.
resolveItem(store, server, base, itemId, content) ==
  IF itemId \in DOMAIN packageItemLookup THEN packageItemLookup[itemId]
  ELSE IF ~server /\ HasCustom(store, itemId)
  THEN [id |-> GetCustom(store, itemId).i, content |-> content,
        imageUrl |-> GetCustom(store, itemId).d]
  ELSE createPlaceholderItem(base, itemId, content)

\* -------------------------------------------------------------- JSON text

\* A JSON text is a sequence of lexemes; a JSON value is a record
\* [t, s, a, o]: its type, its string (or number literal), its array
\* elements, its object members in order.
Lex(k, str) == [k |-> k, s |-> str]
P(k) == Lex(k, "")

JString(str) == [t |-> "string", s |-> str, a |-> <<>>, o |-> <<>>]
JNumber(str) == [t |-> "number", s |-> str, a |-> <<>>, o |-> <<>>]
JNull == [t |-> "null", s |-> "", a |-> <<>>, o |-> <<>>]
JArray(elems) == [t |-> "array", s |-> "", a |-> elems, o |-> <<>>]
JObject(members) == [t |-> "object", s |-> "", a |-> <<>>, o |-> members]
Member(k, v) == [k |-> k, v |-> v]

\* A list of texts joined with commas.
RECURSIVE Join(_)
Join(texts) ==
  IF texts = <<>> THEN <<>>
  ELSE IF Len(texts) = 1 THEN texts[1]
  ELSE texts[1] \o <<P(",")>> \o Join(Tail(texts))

\* JSON.stringify of an object property holding a string or undefined: a
\* property whose value is undefined is left out.
Property(key, value) ==
  IF value = Undefined THEN <<>>
  ELSE << <<Lex("str", key), P(":"), Lex("str", value)>> >>

\* JSON.stringify({i: item.id, c: item.content})
StringifyItem(item) ==
  <<P("{")>> \o Join(Property("i", item.id) \o Property("c", item.content))
             \o <<P("}")>>

\* JSON.stringify({i: tier.id, n: tier.name, t: [...]})
StringifyTier(tier) ==
  <<P("{")>>
  \o Join(Property("i", tier.id) \o Property("n", tier.name)
          \o << <<Lex("str", "t"), P(":"), P("[")>>
                \o Join([k \in 1..Len(tier.items) |-> StringifyItem(tier.items[k])])
                \o <<P("]")>> >>)
  \o <<P("}")>>

\* JSON.stringify(simplifiedTiers)
Stringify(b) ==
  <<P("[")>> \o Join([i \in 1..Len(b) |-> StringifyTier(b[i])]) \o <<P("]")>>

ParseFail == [ok |-> FALSE, v |-> JNull, n |-> 0]
ParseOk(v, n) == [ok |-> TRUE, v |-> v, n |-> n]

RECURSIVE ParseValue(_, _), ParseElements(_, _, _), ParseMembers(_, _, _)

\* JSON.parse, the value starting at lexeme i: the value and the index of
\* the lexeme after it.
ParseValue(text, i) ==
  IF i > Len(text) THEN ParseFail
  ELSE CASE text[i].k = "str" -> ParseOk(JString(text[i].s), i + 1)
         [] text[i].k = "num" -> ParseOk(JNumber(text[i].s), i + 1)
         [] text[i].k = "null" -> ParseOk(JNull, i + 1)
         [] text[i].k = "[" ->
              IF i + 1 <= Len(text) /\ text[i + 1].k = "]"
              THEN ParseOk(JArray(<<>>), i + 2)
              ELSE ParseElements(text, i + 1, <<>>)
         [] text[i].k = "{" ->
              IF i + 1 <= Len(text) /\ text[i + 1].k = "}"
              THEN ParseOk(JObject(<<>>), i + 2)
              ELSE ParseMembers(text, i + 1, <<>>)
         [] OTHER -> ParseFail

\* The elements of an array from lexeme i on, acc being those read.
ParseElements(text, i, acc) ==
  LET r == ParseValue(text, i) IN
  IF ~r.ok \/ r.n > Len(text) THEN ParseFail
  ELSE IF text[r.n].k = "," THEN ParseElements(text, r.n + 1, Append(acc, r.v))
  ELSE IF text[r.n].k = "]" THEN ParseOk(JArray(Append(acc, r.v)), r.n + 1)
  ELSE ParseFail

\* The members of an object from lexeme i on, acc being those read.
ParseMembers(text, i, acc) ==
  IF i + 1 > Len(text) \/ text[i].k # "str" \/ text[i + 1].k # ":" THEN ParseFail
  ELSE LET r == ParseValue(text, i + 2) IN
    IF ~r.ok \/ r.n > Len(text) THEN ParseFail
    ELSE IF text[r.n].k = ","
    THEN ParseMembers(text, r.n + 1, Append(acc, Member(text[i].s, r.v)))
    ELSE IF text[r.n].k = "}"
    THEN ParseOk(JObject(Append(acc, Member(text[i].s, r.v))), r.n + 1)
    ELSE ParseFail

\* JSON.parse(text): ok is FALSE where it throws a SyntaxError.
JSONparse(text) ==
  LET r == ParseValue(text, 1) IN
  IF r.ok /\ r.n = Len(text) + 1 THEN r ELSE ParseFail

\* The property key of a parsed value: of an object its last member of
\* that name, undefined where there is none and on a string, number or
\* array.  (On null the access throws: the callers test for it.)
HasProperty(v, key) == v.t = "object" /\ \E k \in 1..Len(v.o) : v.o[k].k = key
GetProperty(v, key) ==
  v.o[CHOOSE k \in 1..Len(v.o) :
        v.o[k].k = key /\ \A j \in (k + 1)..Len(v.o) : v.o[j].k # key].v

NonString == "<non-string>"

\* A property read as a string field of a Tier or Item: the string, or
\* undefined, or a value that is no string.
Field(v, key) ==
  IF ~HasProperty(v, key) THEN Undefined
  ELSE IF GetProperty(v, key).t = "string" THEN GetProperty(v, key).s
  ELSE NonString

\* ------------------------------------------------------- TierCortex: codec

\* A state token: the result of LZString.compressToEncodedURIComponent on
\* a text (kind "lz"), a string that LZString cannot invert (kind
\* "garbage"), or no token at all (kind "undefined").  The compression is
\* the library's; it is modelled as reversible on what it produced.
compressToEncodedURIComponent(text) == [kind |-> "lz", text |-> text]
GarbageToken == [kind |-> "garbage", text |-> <<>>]
NoToken == [kind |-> "undefined", text |-> <<>>]

\* decompressFromEncodedURIComponent: ok is FALSE where it returns null
\* or the empty string.
decompressFromEncodedURIComponent(token) ==
  [ok |-> token.kind = "lz" /\ token.text # <<>>, text |-> token.text]

encodeTierStateForURL(b) == compressToEncodedURIComponent(Stringify(b))

NullResult == [null |-> TRUE, tiers |-> <<>>]

\* simplifiedTier.t.map(item => this.resolveItem(item.i, item.c))
DecodeItems(store, server, base, list) ==
  [k \in 1..Len(list.a) |->
     IF list.a[k].t = "null" THEN Throw
     ELSE resolveItem(store, server, base,
                      Field(list.a[k], "i"), Field(list.a[k], "c"))]

\* Whether the body of the map callback throws on the element e.
TierThrows(store, server, base, e) ==
  \/ e.t = "null"
  \/ ~HasProperty(e, "t")
  \/ GetProperty(e, "t").t # "array"
  \/ \E k \in 1..Len(GetProperty(e, "t").a) :
       DecodeItems(store, server, base, GetProperty(e, "t"))[k] = Throw

\* decodeTierStateFromURL: every exception of the try block gives null.
decodeTierStateFromURL(store, server, base, token) ==
  LET text == decompressFromEncodedURIComponent(token)
      json == JSONparse(text.text)
  IN IF ~text.ok THEN NullResult
     ELSE IF ~json.ok THEN NullResult
     ELSE IF json.v.t # "array" THEN NullResult
     ELSE IF \E i \in 1..Len(json.v.a) :
               TierThrows(store, server, base, json.v.a[i]) THEN NullResult
     ELSE [null |-> FALSE,
           tiers |-> [i \in 1..Len(json.v.a) |->
             [id |-> Field(json.v.a[i], "i"),
              name |-> Field(json.v.a[i], "n"),
              items |-> DecodeItems(store, server, base,
                                    GetProperty(json.v.a[i], "t")),
              labelPosition |-> Undefined,
              placeholder |-> Undefined]]]

NoItemSet == [packageName |-> Undefined, images |-> <<>>]

\* getInitialTiers: the array it returns and the templates after it (with
\* an item set it assigns the items of the last object of
\* DEFAULT_TIER_TEMPLATE).
getInitialTiers(tpl, store, server, base, initialState, initialItemSet) ==
  LET decodedState == decodeTierStateFromURL(store, server, base, initialState)
      default == tpl[DEFAULT_TIER_TEMPLATE]
      lastTierIndex == Len(default)
      items == [k \in 1..Len(initialItemSet.images) |->
                 LET filename == initialItemSet.images[k]
                     itemId == initialItemSet.packageName \o "-" \o filename
                 IN IF itemId \in DOMAIN packageItemLookup
                    THEN packageItemLookup[itemId]
                    ELSE createPlaceholderItem(base, itemId, filename)]
  IN IF initialState.kind # "undefined" /\ ~decodedState.null
     THEN [tiers |-> [i \in 1..Len(decodedState.tiers) |-> Own(decodedState.tiers[i])],
           tpl |-> tpl]
     ELSE IF initialItemSet # NoItemSet
     THEN [tiers |-> [i \in 1..Len(default) |-> Shared(i)],
           tpl |-> [tpl EXCEPT ![DEFAULT_TIER_TEMPLATE][lastTierIndex].items = items]]
     ELSE [tiers |-> [i \in 1..Len(default) |-> Shared(i)], tpl |-> tpl]

\* ------------------------------------------------------ strings and sort

\* The UTF-16 code units of the contents the model draws from (ASCII
\* letters only).
CodeUnits(str) ==
  CASE str = "a" -> <<97>>
    [] str = "b" -> <<98>>
    [] str = "B" -> <<66>>
    [] str = "q" -> <<113>>
    [] str = "Ab" -> <<65, 98>>
    [] OTHER -> <<>>

\* Lexicographic comparison of two sequences of numbers: -1, 0 or 1.
RECURSIVE CompareSeq(_, _)
CompareSeq(x, y) ==
  IF x = <<>> /\ y = <<>> THEN 0
  ELSE IF x = <<>> THEN -1
  ELSE IF y = <<>> THEN 1
  ELSE IF Head(x) < Head(y) THEN -1
  ELSE IF Head(x) > Head(y) THEN 1
  ELSE CompareSeq(Tail(x), Tail(y))

IsUpper(c) == c \in 65..90
FoldCase(u) == [k \in 1..Len(u) |-> IF IsUpper(u[k]) THEN u[k] + 32 ELSE u[k]]
CaseOf(u) == [k \in 1..Len(u) |-> IF IsUpper(u[k]) THEN 1 ELSE 0]

\* Comparison by code units: what a case-sensitive lexicographic
\* comparison (a < b) computes.
codeUnitCompare(a, b) == CompareSeq(CodeUnits(a), CodeUnits(b))

\* String.prototype.localeCompare on strings of ASCII letters, in the
\* default (root) collation: the letters decide whatever their case, and
\* between strings of the same letters the lower-case letter comes first.
localeCompare(a, b) ==
  IF CompareSeq(FoldCase(CodeUnits(a)), FoldCase(CodeUnits(b))) # 0
  THEN CompareSeq(FoldCase(CodeUnits(a)), FoldCase(CodeUnits(b)))
  ELSE CompareSeq(CaseOf(CodeUnits(a)), CaseOf(CodeUnits(b)))

\* The comparator of resetItems comparing by code units.
compareItemsByCodeUnit(a, b) == codeUnitCompare(a.content, b.content)

\* The comparator resetItems hands to sort.
compareItems(a, b) == localeCompare(a.content, b.content)

\* x put into the sorted sequence s, after every element that does not
\* compare greater.
RECURSIVE InsertSorted(_, _)
InsertSorted(x, s) ==
  IF s = <<>> THEN <<x>>
  ELSE IF compareItems(Head(s), x) > 0 THEN <<x>> \o s
  ELSE <<Head(s)>> \o InsertSorted(x, Tail(s))

\* Array.prototype.sort with compareItems: a stable sort.
RECURSIVE SortItems(_)
SortItems(s) ==
  IF s = <<>> THEN <<>>
  ELSE InsertSorted(s[Len(s)], SortItems(SubSeq(s, 1, Len(s) - 1)))

\* ------------------------------------------- TierListManager: the handlers

\* Whether some tier of board b holds an item with the id or the content
\* of newItem.
OnBoard(b, newItem) ==
  \E i \in 1..Len(b) : \E k \in 1..Len(b[i].items) :
     b[i].items[k].id = newItem.id \/ b[i].items[k].content = newItem.content

\* The filter of handleItemsCreate with the content test left out.
uniqueNewItemsByIdOnly(b, newItems) ==
  SelectSeq(newItems, LAMBDA newItem :
    ~\E i \in 1..Len(b) : \E k \in 1..Len(b[i].items) :
        b[i].items[k].id = newItem.id)

\* handleItemsCreate: the new items that pass the filter.
uniqueNewItems(b, newItems) ==
  SelectSeq(newItems, LAMBDA newItem : ~OnBoard(b, newItem))

\* handleUndoItemsCreate: every tier copied, its items filtered.
removeItems(b, itemIds) ==
  [i \in 1..Len(b) |->
     [b[i] EXCEPT !.items = SelectSeq(b[i].items, LAMBDA item : item.id \notin itemIds)]]

\* handleLabelPositionChange: every tier copied with the new position.
withLabelPosition(b, newPosition) ==
  [i \in 1..Len(b) |-> [b[i] EXCEPT !.labelPosition = newPosition]]

\* Map.prototype.set on a map kept as its entries in insertion order: a
\* key that is present keeps its place and takes the new value.
MapSet(entries, entry) ==
  IF \E k \in 1..Len(entries) : entries[k].id = entry.id
  THEN [k \in 1..Len(entries) |->
          IF entries[k].id = entry.id THEN entry ELSE entries[k]]
  ELSE Append(entries, entry)

RECURSIVE MapOf(_, _)
\* new Map(pairs): the pairs set one after the other, from acc.
MapOf(acc, pairs) ==
  IF pairs = <<>> THEN acc ELSE MapOf(MapSet(acc, Head(pairs)), Tail(pairs))

\* handleTemplateChange: the map of all items with their tier ids.
allItemsMap(b) ==
  MapOf(<<>>, Flatten([i \in 1..Len(b) |->
    [k \in 1..Len(b[i].items) |->
       [id |-> b[i].items[k].id, item |-> b[i].items[k], tierId |-> b[i].id]]]))

\* Array.prototype.find by tier id: the index of the first tier with that
\* id, 0 where there is none.
FindTier(b, id) ==
  IF \E i \in 1..Len(b) : b[i].id = id
  THEN CHOOSE i \in 1..Len(b) : b[i].id = id /\ \A j \in 1..(i - 1) : b[j].id # id
  ELSE 0

uncategorizedTier(position, items) ==
  [id |-> "uncategorized", name |-> "", items |-> items,
   labelPosition |-> position, placeholder |-> Undefined]

\* The body of the forEach with the item put at the front of its tier.
DistributeAtFront(newTiers, position, entry) ==
  LET target == IF FindTier(newTiers, entry.tierId) # 0
                THEN FindTier(newTiers, entry.tierId)
                ELSE FindTier(newTiers, "uncategorized")
  IN IF target # 0
     THEN [newTiers EXCEPT ![target].items = <<entry.item>> \o @]
     ELSE Append(newTiers, uncategorizedTier(position, <<entry.item>>))

\* The body of the forEach of handleTemplateChange, for one map entry.
Distribute(newTiers, position, entry) ==
  LET target == IF FindTier(newTiers, entry.tierId) # 0
                THEN FindTier(newTiers, entry.tierId)
                ELSE FindTier(newTiers, "uncategorized")
  IN IF target # 0
     THEN [newTiers EXCEPT ![target].items = Append(@, entry.item)]
     ELSE Append(newTiers, uncategorizedTier(position, <<entry.item>>))

RECURSIVE DistributeAll(_, _, _)
DistributeAll(newTiers, position, entries) ==
  IF entries = <<>> THEN newTiers
  ELSE DistributeAll(Distribute(newTiers, position, Head(entries)),
                     position, Tail(entries))

\* handleTemplateChange: the new board.
templateChange(b, newTemplate, position) ==
  DistributeAll(
    [i \in 1..Len(newTemplate) |->
       [newTemplate[i] EXCEPT !.items = <<>>, !.labelPosition = position]],
    position, allItemsMap(b))

\* resetItems: the new board.
resetBoard(b, position) ==
  LET allItems == SortItems(AllItems(b))
      resetTiers == [i \in 1..Len(b) |-> [b[i] EXCEPT !.items = <<>>]]
  IN IF resetTiers = <<>> \/ resetTiers[Len(resetTiers)].id # "uncategorized"
     THEN Append(resetTiers, uncategorizedTier(position, allItems))
     ELSE [resetTiers EXCEPT ![Len(resetTiers)].items = allItems]

\* deleteAllItems with the last tier left as it is.
emptyTiersButLast(b) ==
  [i \in 1..Len(b) |-> IF i < Len(b) THEN [b[i] EXCEPT !.items = <<>>] ELSE b[i]]

\* deleteAllItems: the new board.
emptyTiers(b) == [i \in 1..Len(b) |-> [b[i] EXCEPT !.items = <<>>]]

\* Fresh tier objects holding the tiers of b.
Fresh(b) == [i \in 1..Len(b) |-> Own(b[i])]

\* ----------------------------------------------- TierCortex: local storage

\* The entry of window.localStorage under CUSTOM_ITEMS_KEY: absent, present
\* with a text, or out of reach (every access to the storage throws).
NoEntry == [state |-> "absent", text |-> <<>>]
Entry(text) == [state |-> "present", text |-> text]
Disabled == [state |-> "disabled", text |-> <<>>]

\* A tab that has not built its engine.
NoTab == [engine |-> "new", customItemsMap |-> <<>>]

\* The StoredCustomItem an element of the parsed entry is read as: its
\* properties i, c and d, undefined where it has none.
StoredRecord(v) == [i |-> Field(v, "i"), c |-> Field(v, "c"), d |-> Field(v, "d")]

\* JSON.stringify of a StoredCustomItem.
StringifyStored(record) ==
  <<P("{")>> \o Join(Property("i", record.i) \o Property("c", record.c)
                     \o Property("d", record.d))
             \o <<P("}")>>

\* JSON.stringify(Array.from(this.customItemsMap.values()))
StringifyStore(store) ==
  <<P("[")>> \o Join([k \in 1..Len(store) |-> StringifyStored(store[k])])
             \o <<P("]")>>

\* loadCustomItemsFromLocalStorage: the value it returns, or threw where
\* the access to the storage throws (it is outside the try block).
loadCustomItemsFromLocalStorage(server, storage) ==
  IF server THEN [threw |-> FALSE, v |-> JArray(<<>>)]
  ELSE IF storage.state = "disabled" THEN [threw |-> TRUE, v |-> JNull]
  ELSE IF storage.state = "absent" \/ storage.text = <<>>
  THEN [threw |-> FALSE, v |-> JArray(<<>>)]
  ELSE IF ~JSONparse(storage.text).ok THEN [threw |-> FALSE, v |-> JArray(<<>>)]
  ELSE [threw |-> FALSE, v |-> JSONparse(storage.text).v]

\* Map.prototype.set that leaves the record of a key that is present.
StoreSetKeepFirst(store, record) ==
  IF \E k \in 1..Len(store) : store[k].i = record.i THEN store
  ELSE Append(store, record)

\* Map.prototype.set on the custom-item store: a key that is present keeps
\* its place and takes the new record.
StoreSet(store, record) ==
  IF \E k \in 1..Len(store) : store[k].i = record.i
  THEN [k \in 1..Len(store) |-> IF store[k].i = record.i THEN record ELSE store[k]]
  ELSE Append(store, record)

\* records.forEach(item => this.customItemsMap.set(item.i, item))
RECURSIVE StoreSetAll(_, _)
StoreSetAll(store, records) ==
  IF records = <<>> THEN store
  ELSE StoreSetAll(StoreSet(store, Head(records)), Tail(records))

\* initializeCustomItemsMap on an empty map: the map after it, or threw
\* where the load throws, where the loaded value has no forEach (it is no
\* array) or where an element is null (item.i throws).
initializeCustomItemsMap(server, storage) ==
  LET loaded == loadCustomItemsFromLocalStorage(server, storage)
  IN IF loaded.threw \/ loaded.v.t # "array"
        \/ \E k \in 1..Len(loaded.v.a) : loaded.v.a[k].t = "null"
     THEN [threw |-> TRUE, customItemsMap |-> <<>>]
     ELSE [threw |-> FALSE,
           customItemsMap |->
             StoreSetAll(<<>>, [k \in 1..Len(loaded.v.a) |-> StoredRecord(loaded.v.a[k])])]

\* The constructor: the custom-item map it leaves, or threw.
construct(server, storage) ==
  IF server THEN [threw |-> FALSE, customItemsMap |-> <<>>]
  ELSE initializeCustomItemsMap(server, storage)

\* items.map(item => ({i: item.id, c: item.content, d: item.imageUrl ?? ''}))
NewStoredItems(items) ==
  [k \in 1..Len(items) |->
     [i |-> items[k].id, c |-> items[k].content,
      d |-> IF items[k].imageUrl = Undefined THEN "" ELSE items[k].imageUrl]]

\* addCustomItems that reads the entry of the storage again and upserts
\* into what it holds.
addCustomItemsMerging(server, store, storage, items) ==
  LET merged == StoreSetAll(construct(server, storage).customItemsMap,
                            NewStoredItems(items))
  IN IF server THEN [threw |-> FALSE, customItemsMap |-> store, localStorage |-> storage]
     ELSE IF storage.state = "disabled"
     THEN [threw |-> TRUE, customItemsMap |-> merged, localStorage |-> storage]
     ELSE [threw |-> FALSE, customItemsMap |-> merged,
           localStorage |-> Entry(StringifyStore(merged))]

\* addCustomItems: the map and the entry of the storage after it, and
\* whether it threw (localStorage.setItem throws after the map was changed).
addCustomItems(server, store, storage, items) ==
  LET allItems == StoreSetAll(store, NewStoredItems(items))
  IN IF server THEN [threw |-> FALSE, customItemsMap |-> store, localStorage |-> storage]
     ELSE IF storage.state = "disabled"
     THEN [threw |-> TRUE, customItemsMap |-> allItems, localStorage |-> storage]
     ELSE [threw |-> FALSE, customItemsMap |-> allItems,
           localStorage |-> Entry(StringifyStore(allItems))]

\* ------------------------------------------------------------ the inputs

Item(id, content, imageUrl) == [id |-> id, content |-> content, imageUrl |-> imageUrl]

\* The items a user may create: two with one id and different contents.
\* One content is that of a catalog item, the other that of the item of
\* SampleBoard.
NewItemPool == { Item("x", "a", "data:1"), Item("x", "B", "data:2") }

\* The batches handleItemsCreate may be handed.
Batches == UNION {[1..n -> NewItemPool] : n \in 1..MaxBatch}

\* The id sets handleUndoItemsCreate may be handed.
ItemIdSets == {{"x"}, {"y"}}

\* The positions handleLabelPositionChange may be handed: one that is not
\* the position of the templates.
NewLabelPositions == {"top"} \cap LabelPositions

\* The content of local storage the engine may have been built on.
InitialStores ==
  { <<>>,
    << [i |-> "x", c |-> "a", d |-> "data:1"],
       [i |-> "pk-a.png", c |-> "b", d |-> "data:4"] >> }

\* A shared board: a tier of the templates and a tier of no template.
SampleBoard ==
  << [id |-> "tier-s", name |-> "S", items |-> <<Item("y", "B", "data:3")>>,
      labelPosition |-> "left", placeholder |-> "S"],
     [id |-> "tier-x", name |-> "X", items |-> <<>>,
      labelPosition |-> "left", placeholder |-> Undefined] >>

\* The tokens the page may be opened with: none, one that cannot be
\* decoded, that of a board, that of the board without tiers.
InitialStates ==
  {NoToken, GarbageToken, encodeTierStateForURL(SampleBoard),
   encodeTierStateForURL(<<>>)}

InitialItemSets == {NoItemSet, [packageName |-> "pk", images |-> <<"a.png">>]}

\* ------------------------------------------------------------- the history

NoBoard == <<>>

\* The record of an operation: its name, the board before it, its input.
Did(op, pre, items, ids, arg, token) ==
  [op |-> op, pre |-> pre, items |-> items, ids |-> ids, arg |-> arg,
   token |-> token]

DidBoardOp(op, items, ids, arg) == Did(op, Board, items, ids, arg, NoToken)

\* ------------------------------------------------------------- the actions

storageVars == <<localStorage, engine, otherTab>>
cortexVars == <<customItemsMap, isServer, baseUrl, decoded, resolved, storageVars>>
boardVars == <<tierTemplates, tiers, previousTiersRef, labelPosition, url,
               historyLength>>

\* The state parameter of the URL.
StateParam ==
  IF url.pushed THEN encodeTierStateForURL(url.tiers) ELSE url.token

\* The outcome of a state initializer that throws while the component
\* renders.
RenderThrew == "<throw>"

\* Whether the component rendered: its handlers exist only then.
Mounted == labelPosition # RenderThrew

\* router.push: a navigation that adds an entry to the session history
\* (router.replace would leave their number as it is).  Entries beyond
\* MaxHistory are not counted.
routerPush(entries) == IF entries < MaxHistory THEN entries + 1 ELSE entries

\* handleTiersUpdate keeping as the checkpoint the board it replaces.
handleTiersUpdateKeepingOld(tpl, updatedTiers) ==
  /\ Mounted
  /\ previousTiersRef' = tiers
  /\ tiers' = updatedTiers
  /\ url' = [pushed |-> TRUE, token |-> NoToken, tiers |-> BoardOf(tpl, updatedTiers)]
  /\ historyLength' = routerPush(historyLength)

\* handleTiersUpdate(updatedTiers), tpl being the templates at the call:
\* the token of the URL it navigates to is
\* encodeTierStateForURL(updatedTiers).
handleTiersUpdate(tpl, updatedTiers) ==
  /\ Mounted
  /\ previousTiersRef' = updatedTiers
  /\ tiers' = updatedTiers
  /\ url' = [pushed |-> TRUE, token |-> NoToken, tiers |-> BoardOf(tpl, updatedTiers)]
  /\ historyLength' = routerPush(historyLength)

\* The effect on name and title: handleTiersUpdate(tiers) whenever name
\* differs from title.
nameEffect ==
  /\ handleTiersUpdate(tierTemplates, tiers)
  /\ UNCHANGED <<tierTemplates, labelPosition, cortexVars, last>>

\* handleItemsCreate(newItems): the array is copied, the last tier object
\* is not: its items are assigned in place.
handleItemsCreate(newItems) ==
  LET lastTier == tiers[Len(tiers)]
      added == TierOf(tierTemplates, lastTier).items \o uniqueNewItems(Board, newItems)
      tpl == IF lastTier.ref = 0 THEN tierTemplates
             ELSE [tierTemplates EXCEPT
                     ![DEFAULT_TIER_TEMPLATE][lastTier.ref].items = added]
      updatedTiers == IF lastTier.ref = 0
                      THEN [tiers EXCEPT ![Len(tiers)].obj.items = added]
                      ELSE tiers
  IN /\ Len(tiers) > 0
     /\ ItemCount(Board) + Len(uniqueNewItems(Board, newItems)) <= MaxItems
     /\ tierTemplates' = tpl
     /\ handleTiersUpdate(tpl, updatedTiers)
     /\ last' = DidBoardOp("handleItemsCreate", newItems, {}, "")
     /\ UNCHANGED <<labelPosition, cortexVars>>

handleUndoItemsCreate(itemIds) ==
  /\ handleTiersUpdate(tierTemplates, Fresh(removeItems(Board, itemIds)))
  /\ last' = DidBoardOp("handleUndoItemsCreate", <<>>, itemIds, "")
  /\ UNCHANGED <<tierTemplates, labelPosition, cortexVars>>

handleLabelPositionChange(newPosition) ==
  /\ labelPosition' = newPosition
  /\ handleTiersUpdate(tierTemplates, Fresh(withLabelPosition(Board, newPosition)))
  /\ last' = DidBoardOp("handleLabelPositionChange", <<>>, {}, newPosition)
  /\ UNCHANGED <<tierTemplates, cortexVars>>

\* handleTemplateChange(tierTemplates[name])
handleTemplateChange(name) ==
  /\ handleTiersUpdate(tierTemplates,
       Fresh(templateChange(Board, tierTemplates[name], labelPosition)))
  /\ last' = DidBoardOp("handleTemplateChange", <<>>, {}, name)
  /\ UNCHANGED <<tierTemplates, labelPosition, cortexVars>>

\* resetItems: previousTiersRef.current = tiers, and then
\* handleTiersUpdate(resetTiers), which assigns previousTiersRef.current
\* again.
resetItems ==
  /\ handleTiersUpdate(tierTemplates, Fresh(resetBoard(Board, labelPosition)))
  /\ last' = DidBoardOp("resetItems", <<>>, {}, "")
  /\ UNCHANGED <<tierTemplates, labelPosition, cortexVars>>

\* deleteAllItems: previousTiersRef.current = tiers, and then
\* handleTiersUpdate(emptyTiers), which assigns previousTiersRef.current
\* again.
deleteAllItems ==
  /\ handleTiersUpdate(tierTemplates, Fresh(emptyTiers(Board)))
  /\ last' = DidBoardOp("deleteAllItems", <<>>, {}, "")
  /\ UNCHANGED <<tierTemplates, labelPosition, cortexVars>>

\* History of an undo: whether the operation before it was an undo too.
Again == IF last.op \in {"undoReset", "undoDelete"} THEN "again" ELSE ""

undoReset ==
  /\ handleTiersUpdate(tierTemplates, previousTiersRef)
  /\ last' = DidBoardOp("undoReset", <<>>, {}, Again)
  /\ UNCHANGED <<tierTemplates, labelPosition, cortexVars>>

undoDelete ==
  /\ handleTiersUpdate(tierTemplates, previousTiersRef)
  /\ last' = DidBoardOp("undoDelete", <<>>, {}, Again)
  /\ UNCHANGED <<tierTemplates, labelPosition, cortexVars>>

\* The component rendered first on the client, on a browser with no stored
\* custom items: the engine built, the board from getInitialTiers,
\* labelPosition from the first tier (tiers[0].labelPosition throws a
\* TypeError on a board without tiers).
Init ==
  \E initialState \in InitialStates, initialItemSet \in InitialItemSets :
    LET initial == getInitialTiers(tierTemplatesInitial, <<>>, FALSE, Origin,
                                   initialState, initialItemSet)
        first == TierOf(initial.tpl, initial.tiers[1])
    IN /\ customItemsMap = <<>>
       /\ isServer = FALSE
       /\ baseUrl = Origin
       /\ localStorage = NoEntry
       /\ engine = "ready"
       /\ otherTab = NoTab
       /\ historyLength = 1
       /\ tierTemplates = initial.tpl
       /\ tiers = initial.tiers
       /\ previousTiersRef = initial.tiers
       /\ labelPosition = IF initial.tiers = <<>> THEN RenderThrew
                          ELSE IF first.labelPosition # Undefined
                          THEN first.labelPosition ELSE "left"
       /\ url = [pushed |-> FALSE, token |-> initialState, tiers |-> NoBoard]
       /\ decoded = NullResult
       /\ resolved = Throw
       /\ last = Did("mount", NoBoard, <<>>, {}, "", initialState)

Next ==
  \/ nameEffect
  \/ \E newItems \in Batches : handleItemsCreate(newItems)
  \/ \E itemIds \in ItemIdSets : handleUndoItemsCreate(itemIds)
  \/ \E newPosition \in NewLabelPositions : handleLabelPositionChange(newPosition)
  \/ \E name \in TemplateNames : handleTemplateChange(name)
  \/ resetItems
  \/ deleteAllItems
  \/ undoReset
  \/ undoDelete

Spec == Init /\ [][Next]_vars

\* --------------------------------------------------- the engine on its own

\* The items of the boards handed to the codec: a catalog item, an item
\* with the id of a catalog item and a content of its own, an item of the
\* custom store, an item of neither.
CodecItems ==
  { Item("pk-a.png", "a", "/images/pk/a.png"), Item("pk-a.png", "b", "data:4"),
    Item("x", "a", "data:1"), Item("y", "B", "data:3") }

CodecTierShells ==
  << [id |-> "tier-s", name |-> "S"], [id |-> "tier-x", name |-> "X"],
     [id |-> "uncategorized", name |-> ""] >>

\* The tier at place i of a codec board, holding items.
CodecTier(i, items) ==
  LET shell == CodecTierShells[((i - 1) % Len(CodecTierShells)) + 1]
  IN [id |-> shell.id, name |-> shell.name, items |-> items,
      labelPosition |-> "left", placeholder |-> Undefined]

CodecItemSeqs == UNION {[1..n -> CodecItems] : n \in 0..MaxCodecItems}

\* The boards handed to the codec.
CodecBoards ==
  UNION {{[i \in 1..n |-> CodecTier(i, f[i])] : f \in [1..n -> CodecItemSeqs]} :
           n \in 0..MaxCodecTiers}

Str(str) == Lex("str", str)

\* Texts that are no JSON, JSON values that are no array of tiers, and
\* arrays of tiers with a part missing or of another type.
DecodeTexts ==
  { <<>>,
    <<P("[")>>,
    <<P("{"), Str("i")>>,
    <<P("["), P("]"), P("]")>>,
    <<P("{"), P("}")>>,
    <<Str("abc")>>,
    <<Lex("num", "5")>>,
    <<P("null")>>,
    <<P("["), P("null"), P("]")>>,
    <<P("["), Lex("num", "5"), P("]")>>,
    <<P("["), P("{"), Str("i"), P(":"), Str("tier-s"), P(","),
      Str("n"), P(":"), Str("S"), P("}"), P("]")>>,
    <<P("["), P("{"), Str("i"), P(":"), Str("tier-s"), P(","),
      Str("n"), P(":"), Str("S"), P(","), Str("t"), P(":"), Str("x"), P("}"), P("]")>>,
    <<P("["), P("{"), Str("t"), P(":"), P("["), P("]"), P("}"), P("]")>>,
    <<P("["), P("{"), Str("i"), P(":"), Lex("num", "5"), P(","),
      Str("n"), P(":"), Str("S"), P(","), Str("t"), P(":"), P("["), P("]"), P("}"), P("]")>>,
    <<P("["), P("{"), Str("i"), P(":"), Str("tier-s"), P(","),
      Str("n"), P(":"), Str("S"), P(","), Str("t"), P(":"),
      P("["), P("null"), P("]"), P("}"), P("]")>>,
    <<P("["), P("{"), Str("i"), P(":"), Str("tier-s"), P(","),
      Str("n"), P(":"), Str("S"), P(","), Str("t"), P(":"),
      P("["), P("{"), Str("i"), P(":"), Str("x"), P("}"), P("]"), P("}"), P("]")>>,
    <<P("["), P("{"), Str("i"), P(":"), Str("tier-s"), P(","),
      Str("n"), P(":"), Str("S"), P(","), Str("t"), P(":"),
      P("["), P("{"), Str("i"), P(":"), Str("pk-a.png"), P(","),
      Str("c"), P(":"), Str("a"), P("}"), P("]"), P("}"), P("]")>> }

\* The tokens handed to decodeTierStateFromURL.
DecodeTokens ==
  {GarbageToken} \cup {compressToEncodedURIComponent(text) : text \in DecodeTexts}

ResolveIds == {"pk-a.png", "x", "y"}
ResolveContents == {"a", "b"}

\* Whether no method of the engine has been called since its constructor.
\* The custom store does not change under the calls below, so that a call
\* after another returns what it returns as the first.
Constructed == last.op = "constructor"

\* decodeTierStateFromURL(encodeTierStateForURL(b))
roundTrip(b) ==
  /\ Constructed
  /\ decoded' = decodeTierStateFromURL(customItemsMap, isServer, baseUrl,
                                       encodeTierStateForURL(b))
  /\ last' = Did("roundTrip", b, <<>>, {}, "", encodeTierStateForURL(b))
  /\ UNCHANGED <<boardVars, storageVars, customItemsMap, isServer, baseUrl, resolved>>

\* decodeTierStateFromURL(token)
decodeToken(token) ==
  /\ Constructed
  /\ decoded' = decodeTierStateFromURL(customItemsMap, isServer, baseUrl, token)
  /\ last' = Did("decodeTierStateFromURL", NoBoard, <<>>, {}, "", token)
  /\ UNCHANGED <<boardVars, storageVars, customItemsMap, isServer, baseUrl, resolved>>

\* resolveItem(itemId, content)
resolve(itemId, content) ==
  /\ Constructed
  /\ resolved' = resolveItem(customItemsMap, isServer, baseUrl, itemId, content)
  /\ last' = Did("resolveItem", NoBoard, <<Item(itemId, content, "")>>, {}, "", NoToken)
  /\ UNCHANGED <<boardVars, storageVars, customItemsMap, isServer, baseUrl, decoded>>

\* An engine after its constructor: on the client with the custom items of
\* local storage, on the server with none and with the base URL of the
\* environment, which may be unset.
InitCodec ==
  /\ isServer \in BOOLEAN
  /\ customItemsMap \in (IF isServer THEN {<<>>} ELSE InitialStores)
  /\ baseUrl \in (IF isServer THEN {"", Origin} ELSE {Origin})
  /\ tierTemplates = tierTemplatesInitial
  /\ tiers = <<>>
  /\ previousTiersRef = <<>>
  /\ labelPosition = "left"
  /\ url = [pushed |-> FALSE, token |-> NoToken, tiers |-> NoBoard]
  /\ historyLength = 1
  /\ localStorage = IF customItemsMap = <<>> THEN NoEntry
                    ELSE Entry(StringifyStore(customItemsMap))
  /\ engine = "ready"
  /\ otherTab = NoTab
  /\ decoded = NullResult
  /\ resolved = Throw
  /\ last = Did("constructor", NoBoard, <<>>, {}, "", NoToken)

NextCodec ==
  \/ \E b \in CodecBoards : roundTrip(b)
  \/ \E token \in DecodeTokens : decodeToken(token)
  \/ \E itemId \in ResolveIds, content \in ResolveContents : resolve(itemId, content)

SpecCodec == InitCodec /\ [][NextCodec]_vars

\* ------------------------------------------ the engines and local storage

\* The entries the storage may hold when a tab is opened: none, the empty
\* string, a text that is no JSON, JSON values that are no array, an array
\* with a null, an array with an object that is no record, the blob of a
\* store, and a storage out of reach.
StorageContents ==
  { NoEntry,
    Entry(<<>>),
    Entry(<<P("[")>>),
    Entry(<<P("{"), P("}")>>),
    Entry(<<P("null")>>),
    Entry(<<Str("abc")>>),
    Entry(<<P("["), P("null"), P("]")>>),
    Entry(<<P("["), P("{"), P("}"), P("]")>>),
    Entry(StringifyStore(<< [i |-> "z", c |-> "c", d |-> "data:9"] >>)),
    Disabled }

\* The items addCustomItems may be handed: two with one id, one without an
\* image.
CustomItemPool ==
  { Item("x", "a", "data:1"), Item("x", "b", "data:2"), Item("y", "B", Undefined) }

CustomBatches == UNION {[1..n -> CustomItemPool] : n \in 1..MaxCustomBatch}

Outcome(threw) == IF threw THEN "threw" ELSE "returned"

\* new TierCortex() in this context.
constructThis ==
  /\ engine = "new"
  /\ LET built == construct(isServer, localStorage)
     IN /\ engine' = IF built.threw THEN "threw" ELSE "ready"
        /\ customItemsMap' = built.customItemsMap
        /\ last' = Did("constructor", NoBoard, <<>>, {"this"}, Outcome(built.threw), NoToken)
  /\ UNCHANGED <<boardVars, localStorage, otherTab, isServer, baseUrl, decoded, resolved>>

\* new TierCortex() in another tab of the browser.
constructOther ==
  /\ otherTab.engine = "new"
  /\ LET built == construct(FALSE, localStorage)
     IN /\ otherTab' = [engine |-> IF built.threw THEN "threw" ELSE "ready",
                        customItemsMap |-> built.customItemsMap]
        /\ last' = Did("constructor", NoBoard, <<>>, {"other"}, Outcome(built.threw), NoToken)
  /\ UNCHANGED <<boardVars, localStorage, engine, customItemsMap, isServer, baseUrl,
                 decoded, resolved>>

\* addCustomItems(items) on this engine.
addCustomItemsThis(items) ==
  /\ engine = "ready"
  /\ LET added == addCustomItems(isServer, customItemsMap, localStorage, items)
     IN /\ customItemsMap' = added.customItemsMap
        /\ localStorage' = added.localStorage
        /\ last' = Did("addCustomItems", NoBoard, items, {"this"}, Outcome(added.threw), NoToken)
  /\ UNCHANGED <<boardVars, engine, otherTab, isServer, baseUrl, decoded, resolved>>

\* addCustomItems(items) on the engine of the other tab.
addCustomItemsOther(items) ==
  /\ otherTab.engine = "ready"
  /\ LET added == addCustomItems(FALSE, otherTab.customItemsMap, localStorage, items)
     IN /\ otherTab' = [otherTab EXCEPT !.customItemsMap = added.customItemsMap]
        /\ localStorage' = added.localStorage
        /\ last' = Did("addCustomItems", NoBoard, items, {"other"}, Outcome(added.threw), NoToken)
  /\ UNCHANGED <<boardVars, engine, customItemsMap, isServer, baseUrl, decoded, resolved>>

\* A browser (or, for this engine, a server) before any engine is built.
InitStore ==
  /\ isServer \in BOOLEAN
  /\ baseUrl \in (IF isServer THEN {"", Origin} ELSE {Origin})
  /\ localStorage \in StorageContents
  /\ engine = "new"
  /\ customItemsMap = <<>>
  /\ otherTab = NoTab
  /\ tierTemplates = tierTemplatesInitial
  /\ tiers = <<>>
  /\ previousTiersRef = <<>>
  /\ labelPosition = "left"
  /\ url = [pushed |-> FALSE, token |-> NoToken, tiers |-> NoBoard]
  /\ historyLength = 1
  /\ decoded = NullResult
  /\ resolved = Throw
  /\ last = Did("open", NoBoard, <<>>, {}, "", NoToken)

NextStore ==
  \/ constructThis
  \/ constructOther
  \/ \E items \in CustomBatches : addCustomItemsThis(items)
  \/ \E items \in CustomBatches : addCustomItemsOther(items)

SpecStore == InitStore /\ [][NextStore]_vars

\* ------------------------------------------------- the claims: the board

\* How often x occurs in the sequence s.
Count(x, s) == Cardinality({k \in 1..Len(s) : s[k] = x})

\* Whether two sequences hold the same elements, each as often.
SameElements(s, t) ==
  \A x \in Range(s) \cup Range(t) : Count(x, s) = Count(x, t)

IsUndo(op) == op \in {"undoReset", "undoDelete"}
IsDestructive(op) == op \in {"resetItems", "deleteAllItems"}

\* C1: undo restores the pre-destructive board.  A step that is an undo,
\* taken right after deleteAllItems or resetItems ran on the board B,
\* leaves the board equal to B.
C1_UndoRestoresBoard ==
  [][(IsDestructive(last.op) /\ IsUndo(last'.op)) => Board' = last.pre]_vars

\* C3: no item id occurs more than once on the whole board.
C3_ItemIdsUnique ==
  \A k, m \in 1..ItemCount(Board) :
     AllItems(Board)[k].id = AllItems(Board)[m].id => k = m

\* Whether the id or the content of item is that of an item of board b.
IsDuplicate(b, item) ==
  \E k \in 1..ItemCount(b) :
     AllItems(b)[k].id = item.id \/ AllItems(b)[k].content = item.content

\* C4: dedup on create.  After handleItemsCreate, an incoming item whose id
\* or content was on the board occurs on the board as often as before, and
\* a batch of such items only leaves the item count unchanged.
C4_DedupOnCreate ==
  last.op = "handleItemsCreate" =>
    /\ \A k \in 1..Len(last.items) :
         IsDuplicate(last.pre, last.items[k]) =>
           Count(last.items[k], AllItems(Board)) =
             Count(last.items[k], AllItems(last.pre))
    /\ (\A k \in 1..Len(last.items) : IsDuplicate(last.pre, last.items[k]))
         => ItemCount(Board) = ItemCount(last.pre)

\* A batch of duplicates only was handed to a board with items, one of
\* them a duplicate by its id alone.
C4_Witness ==
  /\ last.op = "handleItemsCreate"
  /\ ItemCount(last.pre) > 0
  /\ \A k \in 1..Len(last.items) : IsDuplicate(last.pre, last.items[k])
  /\ \E k \in 1..Len(last.items) : \A m \in 1..ItemCount(last.pre) :
       AllItems(last.pre)[m].content # last.items[k].content

\* A batch of duplicates only was handed to a board with items, one of
\* them a duplicate by its content alone.
C4_WitnessByContent ==
  /\ last.op = "handleItemsCreate"
  /\ \A k \in 1..Len(last.items) : IsDuplicate(last.pre, last.items[k])
  /\ \E k \in 1..Len(last.items) : \A m \in 1..ItemCount(last.pre) :
       AllItems(last.pre)[m].id # last.items[k].id

TierIds(b) == {b[i].id : i \in 1..Len(b)}

\* The indices of the tiers of b that hold the item.
TiersHolding(b, item) == {i \in 1..Len(b) : item \in Range(b[i].items)}

\* C7: template migration preserves placement.  After handleTemplateChange,
\* every item of the old board whose tier id is a tier id of the new
\* template is in the tier of that id of the new board and in no other.
C7_MigrationPreservesPlacement ==
  last.op = "handleTemplateChange" =>
    \A i \in 1..Len(last.pre) : \A k \in 1..Len(last.pre[i].items) :
       last.pre[i].id \in TierIds(tierTemplates[last.arg]) =>
         TiersHolding(Board, last.pre[i].items[k]) =
           {FindTier(Board, last.pre[i].id)}

\* The items of board b whose tier id is no tier id of the template.
Orphans(b, template) ==
  UNION {Range(b[i].items) : i \in {j \in 1..Len(b) : b[j].id \notin TierIds(template)}}

\* C8: orphan handling.  After a change to a template that defines no
\* "uncategorized" tier: with an orphaned item, the new board is the
\* template's tiers followed by exactly one "uncategorized" tier, which
\* holds every orphaned item; with none, it is the template's tiers alone.
C8_OrphansGoToOneSink ==
  (last.op = "handleTemplateChange"
     /\ "uncategorized" \notin TierIds(tierTemplates[last.arg])) =>
    LET template == tierTemplates[last.arg]
        orphans == Orphans(last.pre, template)
    IN /\ \A i \in 1..Len(template) : Board[i].id = template[i].id
       /\ orphans = {} => Len(Board) = Len(template)
       /\ orphans # {} =>
            /\ Len(Board) = Len(template) + 1
            /\ Board[Len(Board)].id = "uncategorized"
            /\ orphans \subseteq Range(Board[Len(Board)].items)

\* Whether the items are in the order of the comparison cmp.
Sorted(items, cmp(_, _)) ==
  \A k, m \in 1..Len(items) : k < m => cmp(items[k].content, items[m].content) <= 0

\* What C9 says of resetItems but for the order of the sink tier.
ResetShape(pre, post) ==
  /\ Len(post) = IF pre # <<>> /\ pre[Len(pre)].id = "uncategorized"
                 THEN Len(pre) ELSE Len(pre) + 1
  /\ post[Len(post)].id = "uncategorized"
  /\ SameElements(post[Len(post)].items, AllItems(pre))
  /\ \A i \in 1..(Len(post) - 1) : post[i] = [pre[i] EXCEPT !.items = <<>>]

C10_DeleteAllKeepsTiers ==
  last.op = "deleteAllItems" =>
    /\ Len(Board) = Len(last.pre)
    /\ \A i \in 1..Len(Board) :
         /\ Board[i].id = last.pre[i].id
         /\ Board[i].name = last.pre[i].name
         /\ Board[i].labelPosition = last.pre[i].labelPosition
         /\ Board[i].placeholder = last.pre[i].placeholder
         /\ Board[i].items = <<>>

\* deleteAllItems ran on a board with items in two tiers.
C10_Witness ==
  /\ last.op = "deleteAllItems"
  /\ Cardinality({i \in 1..Len(last.pre) : last.pre[i].items # <<>>}) >= 2

\* ------------------------------------------------ the claims: the engine

\* The ids, names and item ids and contents of a board, in order.
Essence(b) ==
  [i \in 1..Len(b) |->
     [id |-> b[i].id, name |-> b[i].name,
      items |-> [k \in 1..Len(b[i].items) |->
                   [id |-> b[i].items[k].id, content |-> b[i].items[k].content]]]]

\* C2: round trip of the URL codec.  Decoding the token of a board gives a
\* board with the same tier ids and names in the same order and, in each
\* tier, the same item ids and contents in the same order.
C2_RoundTrip ==
  last.op = "roundTrip" =>
    ~decoded.null /\ Essence(decoded.tiers) = Essence(last.pre)

\* Whether a parsed value is an object with a string under each key.
HasStrings(v, keys) ==
  /\ v.t = "object"
  /\ \A key \in keys : HasProperty(v, key) /\ GetProperty(v, key).t = "string"

\* Whether a token decompresses to the JSON text of an array of tiers
\* {i, n, t}, i and n strings and t an array of items {i, c}, both strings.
ExpectedShape(token) ==
  /\ decompressFromEncodedURIComponent(token).ok
  /\ JSONparse(token.text).ok
  /\ LET v == JSONparse(token.text).v
     IN /\ v.t = "array"
        /\ \A i \in 1..Len(v.a) :
             /\ HasStrings(v.a[i], {"i", "n"})
             /\ HasProperty(v.a[i], "t")
             /\ GetProperty(v.a[i], "t").t = "array"
             /\ \A k \in 1..Len(GetProperty(v.a[i], "t").a) :
                  HasStrings(GetProperty(v.a[i], "t").a[k], {"i", "c"})

\* C5: decode failure is a value.  decodeTierStateFromURL returns null for
\* every token that is not of the expected shape.
C5_DecodeFailureIsNull ==
  (last.op \in {"decodeTierStateFromURL", "roundTrip"} /\ ~ExpectedShape(last.token))
    => decoded.null

\* C6: resolver precedence.  For an id of the catalog resolveItem returns
\* the catalog's item, whatever the custom store holds and whatever the
\* fallback content; it returns the image of the custom store only for an
\* id the catalog does not have, and the placeholder only for an id that
\* neither has.
C6_ResolverPrecedence ==
  last.op = "resolveItem" =>
    LET itemId == last.items[1].id
        inCatalog == \E k \in 1..Len(packageItems) : packageItems[k].id = itemId
        inStore == \E k \in 1..Len(customItemsMap) : customItemsMap[k].i = itemId
        placeholder == baseUrl \o "/placeholder-image.jpg"
    IN /\ inCatalog =>
            \E k \in 1..Len(packageItems) :
               /\ packageItems[k].id = itemId
               /\ resolved = packageItems[k]
       /\ (\E k \in 1..Len(customItemsMap) :
             customItemsMap[k].i = itemId /\ resolved.imageUrl = customItemsMap[k].d)
            => ~inCatalog
       /\ resolved.imageUrl = placeholder => (~inCatalog /\ ~inStore)

\* resolveItem ran for an id that the catalog and the custom store both
\* have, with a fallback content that is not the catalog's.
C6_Witness ==
  /\ last.op = "resolveItem"
  /\ last.items[1].id \in DOMAIN packageItemLookup
  /\ \E k \in 1..Len(customItemsMap) : customItemsMap[k].i = last.items[1].id
  /\ last.items[1].content # packageItemLookup[last.items[1].id].content
  /\ resolved = packageItemLookup[last.items[1].id]

\* ------------------------------------------- the claims: load and storage

\* C11: the board always contains at least one tier.
C11_BoardHasATier == Len(tiers) > 0

\* Whether the entry of the storage is the JSON text of an array of custom
\* item records {i, c, d}, each a string.
IsStoreBlob(storage) ==
  /\ storage.state = "present"
  /\ JSONparse(storage.text).ok
  /\ JSONparse(storage.text).v.t = "array"
  /\ \A k \in 1..Len(JSONparse(storage.text).v.a) :
       HasStrings(JSONparse(storage.text).v.a[k], {"i", "c", "d"})

\* C12: absent or corrupt stored data is an empty store and never fatal.
\* After the constructor ran on the client with an entry that is missing,
\* is no JSON or is no array of custom item records, it has returned and
\* the custom-item store is empty.
C12_CorruptStoreIsEmpty ==
  (/\ last.op = "constructor" /\ last.ids = {"this"}
   /\ ~isServer
   /\ localStorage.state # "disabled"
   /\ ~IsStoreBlob(localStorage))
    => (engine = "ready" /\ customItemsMap = <<>>)

\* The keys of a custom-item store.
StoreKeys(store) == {store[k].i : k \in 1..Len(store)}

\* C13: custom-item persistence.  A step that is addCustomItems on the
\* client, the storage being within reach, leaves as the entry of the
\* storage the serialization of the whole store (which reads back as that
\* store), and leaves a store with one record per id: for every id of the
\* batch the record of the last item of the batch with that id, for every
\* other id the record the store held.
C13_StoreIsPersisted ==
  [][(/\ last'.op = "addCustomItems" /\ last'.ids = {"this"}
      /\ ~isServer
      /\ localStorage.state # "disabled")
     => LET batch == NewStoredItems(last'.items)
        IN /\ localStorage' = Entry(StringifyStore(customItemsMap'))
           /\ construct(FALSE, localStorage').customItemsMap = customItemsMap'
           /\ StoreKeys(customItemsMap') = StoreKeys(customItemsMap) \cup StoreKeys(batch)
           /\ \A k, m \in 1..Len(customItemsMap') :
                customItemsMap'[k].i = customItemsMap'[m].i => k = m
           /\ \A k \in 1..Len(batch) :
                (\A j \in (k + 1)..Len(batch) : batch[j].i # batch[k].i)
                  => GetCustom(customItemsMap', batch[k].i) = batch[k]
           /\ \A k \in 1..Len(customItemsMap) :
                customItemsMap[k].i \notin StoreKeys(batch)
                  => GetCustom(customItemsMap', customItemsMap[k].i) = customItemsMap[k]
    ]_vars

\* addCustomItems ran on the client with a batch that holds one id twice,
\* with different contents, on a store that holds a record under another
\* id: the store has the record of the second, and the entry is the blob
\* of the store.
C13_Witness ==
  /\ last.op = "addCustomItems" /\ last.ids = {"this"} /\ last.arg = "returned"
  /\ ~isServer
  /\ Len(last.items) = 2
  /\ last.items[1].id = last.items[2].id
  /\ last.items[1].content # last.items[2].content
  /\ StoreKeys(customItemsMap) # {last.items[2].id}
  /\ GetCustom(customItemsMap, last.items[2].id).c = last.items[2].content
  /\ localStorage = Entry(StringifyStore(customItemsMap))

\* ------------------------------------- the claims: navigation and undo

\* C14: URL sync is a navigation replace.  Every board mutation (every step
\* of the component, each a call of handleTiersUpdate) leaves the state
\* parameter of the URL at the token of the new board and leaves the number
\* of entries of the session history as it was.
C14_UrlSyncReplaces ==
  [][/\ url'.pushed
     /\ StateParam' = encodeTierStateForURL(Board')
     /\ historyLength' = historyLength]_vars

\* The board the checkpoint holds.
Checkpoint == BoardOf(tierTemplates, previousTiersRef)

C16_UnavailableStorageIsEmptyStore ==
  [][(isServer \/ localStorage.state = "disabled")
     => /\ engine' # "threw"
        /\ customItemsMap' = <<>>
        /\ (last'.op = "addCustomItems" /\ last'.ids = {"this"})
             => (last'.arg = "returned" /\ localStorage' = localStorage)
        /\ engine' = "ready"
             => \A itemId \in ResolveIds \ DOMAIN packageItemLookup :
                  \A content \in ResolveContents :
                    resolveItem(customItemsMap', isServer, baseUrl, itemId, content)
                      = [id |-> itemId, content |-> content,
                         imageUrl |-> baseUrl \o "/placeholder-image.jpg"]
    ]_vars

\* ------------------------------------------- the claims: templates

\* C17: templates are immutable presets with empty item sequences.  Every
\* tier of every template of tierTemplates has no items and the id, name,
\* placeholder and label position of its literal.
C17_TemplatesImmutable ==
  \A name \in TemplateNames :
    /\ Len(tierTemplates[name]) = Len(tierTemplatesInitial[name])
    /\ \A i \in 1..Len(tierTemplates[name]) :
         /\ tierTemplates[name][i].items = <<>>
         /\ tierTemplates[name][i] = tierTemplatesInitial[name][i]

\* The operations that are neither reset nor delete-all.
IsNonDestructive(op) ==
  op \in {"handleItemsCreate", "handleUndoItemsCreate", "handleTemplateChange",
          "handleLabelPositionChange", "undoReset", "undoDelete"}

\* C18: the undo checkpoint is replaced only by reset and delete-all.  A
\* step of a non-destructive operation leaves the checkpoint as it was, a
\* step of resetItems or deleteAllItems leaves as the checkpoint the board
\* before it, and a step of an undo leaves as the board the checkpoint: so
\* that an undo restores the board as it was before the last reset or
\* delete-all, whatever non-destructive operations came after it.
C18_CheckpointOnlyByDestructive ==
  [][/\ (last' # last /\ IsNonDestructive(last'.op)) => Checkpoint' = Checkpoint
     /\ (last' # last /\ IsDestructive(last'.op)) => Checkpoint' = Board
     /\ (last' # last /\ IsUndo(last'.op)) => Board' = Checkpoint]_vars

\* ------------------------------------------- the claims: two tabs

\* C19: cross-tab clobbering.  A step that is addCustomItems of a tab
\* returns and leaves as the entry of the storage the blob of that tab's
\* own store with the batch upserted, whatever the entry held before: a
\* record another tab persisted under an id this tab does not hold is gone
\* from the entry, and nothing reports it.
C19_WriterOverwritesEntry ==
  [][/\ (/\ last'.op = "addCustomItems" /\ last'.ids = {"other"}
         /\ localStorage.state # "disabled")
        => /\ last'.arg = "returned"
           /\ localStorage' =
                Entry(StringifyStore(StoreSetAll(otherTab.customItemsMap,
                                                 NewStoredItems(last'.items))))
     /\ (/\ last'.op = "addCustomItems" /\ last'.ids = {"this"}
         /\ ~isServer /\ localStorage.state # "disabled")
        => /\ last'.arg = "returned"
           /\ localStorage' =
                Entry(StringifyStore(StoreSetAll(customItemsMap,
                                                 NewStoredItems(last'.items))))
    ]_vars

\* Two tabs are open, this one holds a record under "x" and none under
\* "y", the other one a record under "y" and none under "x" (so each built
\* its store before the other wrote, and each persisted its record), the
\* other tab wrote last, and the entry of the storage has no record under
\* "x".
C19_Witness ==
  /\ ~isServer /\ engine = "ready" /\ otherTab.engine = "ready"
  /\ last.op = "addCustomItems" /\ last.ids = {"other"} /\ last.arg = "returned"
  /\ "x" \in StoreKeys(customItemsMap) /\ "y" \notin StoreKeys(customItemsMap)
  /\ "y" \in StoreKeys(otherTab.customItemsMap)
  /\ "x" \notin StoreKeys(otherTab.customItemsMap)
  /\ "x" \notin StoreKeys(construct(FALSE, localStorage).customItemsMap)
  /\ "y" \in StoreKeys(construct(FALSE, localStorage).customItemsMap)

\* ------------------------------------ the claims: template change, items

\* Whether no item id occurs twice on board b.
UniqueIds(b) ==
  \A k, m \in 1..ItemCount(b) : AllItems(b)[k].id = AllItems(b)[m].id => k = m

\* The place of an item in the flattened board b.
PlaceOf(b, item) == CHOOSE k \in 1..ItemCount(b) : AllItems(b)[k] = item

\* C20: template change conserves items.  After handleTemplateChange on a
\* board with unique item ids, the new board holds every item of the old
\* board once and no other item, and the items of each tier of the new
\* board are in the order they had in the flattened old board.
C20_TemplateChangeConservesItems ==
  (last.op = "handleTemplateChange" /\ UniqueIds(last.pre)) =>
    /\ SameElements(AllItems(Board), AllItems(last.pre))
    /\ UniqueIds(Board)
    /\ \A i \in 1..Len(Board) : \A k, m \in 1..Len(Board[i].items) :
         k < m => PlaceOf(last.pre, Board[i].items[k])
                    < PlaceOf(last.pre, Board[i].items[m])

\* handleTemplateChange ran on a board with unique ids that held items in
\* two places, and two of them ended in one tier.
C20_Witness ==
  /\ last.op = "handleTemplateChange"
  /\ UniqueIds(last.pre)
  /\ ItemCount(last.pre) >= 2
  /\ \E i \in 1..Len(Board) : Len(Board[i].items) >= 2

====
